---- MODULE Spec2Model ----
(***************************************************************************)
(* Reactive references over the host framework's state and memoization     *)
(* hooks: useReactive, useComputedReactive (alias useComputedModel),       *)
(* useAsyncReactive and useAsyncComputed, as one component instance that    *)
(* calls one of the hooks on every render pass; a component that maps a    *)
(* cell (useReactive(v).map(fn)), one that shares its cell with a child,   *)
(* the draft's useModel and the draft's useAsyncComputed are further       *)
(* kinds of component.  FairSpec is the promise adapters under the host's  *)
(* scheduling guarantees.                                                  *)
(*                                                                         *)
(* The host is modelled by what the hooks rely on: a state slot with an    *)
(* update queue that the next render pass reduces in order, a memo slot    *)
(* compared element-wise against the dependency list, an update issued     *)
(* while rendering forcing one more pass of the same component, and the    *)
(* promise job queue (reactions run in registration order, before any      *)
(* later task).                                                            *)
(***************************************************************************)
EXTENDS Integers, Sequences, FiniteSets, TLC

\* ------------------------------------------------------------------ bounds
MaxRenders == 5
MaxUpdates == 2
MaxPromises == 2
\* the count of update calls per promise is kept up to this number
MaxPublished == 3

\* ------------------------------------------------------------------ values
Undefined == [t |-> "undefined", n |-> 0]
Null == [t |-> "null", n |-> 0]
NaN == [t |-> "nan", n |-> 0]
Num(k) == [t |-> "number", n |-> k]
\* the reason a promise rejects with
Err == [t |-> "error", n |-> 0]
\* the string of k characters "1": Str(0) is ""
Str(k) == [t |-> "string", n |-> k]
\* false is Bool(0), true is Bool(1)
Bool(b) == [t |-> "boolean", n |-> b]
\* the array of k elements 1: Arr(0) is []
Arr(k) == [t |-> "array", n |-> k]

\* value !== undefined && value !== null
IsDefinedValue(v) == v.t /= "undefined" /\ v.t /= "null"

\* x ?? y
Coalesce(x, y) == IF IsDefinedValue(x) THEN x ELSE y

\* x + 1 on the values of the model: undefined + 1 and NaN + 1 are NaN, null + 1 is 1,
\* false + 1 is 1 and true + 1 is 2, a string or an array (of at most one element)
\* is converted to a string and "1" is appended
PlusOne(v) ==
    CASE v.t = "number" -> Num(v.n + 1)
      [] v.t = "null" -> Num(1)
      [] v.t = "boolean" -> Num(v.n + 1)
      [] v.t = "string" -> Str(v.n + 1)
      [] v.t = "array" -> Str(v.n + 1)
      [] OTHER -> NaN

\* the truthiness of a value: undefined, null, NaN, 0, "" and false are falsy
Truthy(v) ==
    CASE v.t = "number" -> v.n /= 0
      [] v.t = "string" -> v.n /= 0
      [] v.t = "boolean" -> v.n = 1
      [] v.t = "array" -> TRUE
      [] OTHER -> FALSE

\* ------------------------------------------------------------------ inputs
\* "useReactiveMap" is a component that calls useReactive(initialValue).map(fn)
\* "useModel" is the draft's hook, whose handle is the class Model
\* "useAsyncComputedDraft" is the draft of useAsyncComputed built on useComputed
\* "useReactiveShared" is a component that calls useReactive and hands the cell to a
\* child, which increments it and may keep the handle of one pass
Hooks == {"useReactive", "useComputedReactive", "useAsyncReactive", "useAsyncComputed",
          "useReactiveMap", "useModel", "useAsyncComputedDraft", "useReactiveShared"}
\* factories handed to useComputedReactive: prev => (prev ?? 0) + 1, and prev => 0
Factories == {"inc", "zero"}
\* updater functions handed to update(fn): v => v + 1
Updaters == {"inc"}
InitialValues == {Undefined, Num(0)}
\* further initial values, for the cell whose query methods are exercised
SampleValues == {Null, Str(0), Str(1), Bool(0), Bool(1), Arr(0), Arr(1)}
\* callbacks handed to ifPresent: one that only reads, one that calls update(5)
Callbacks == {"read", "write"}
UpdateValues == {Undefined, Num(0), Num(5)}
ResolveValues == {Num(1), Num(2)}
DepKeys == {1, 2}

\* the factory argument of useComputedReactive, applied to prev
Factory(f, prev) ==
    IF f = "inc" THEN PlusOne(Coalesce(prev, Num(0))) ELSE Num(0)

\* the mapping function handed to map: v => v + 1
MappingFn(v) == PlusOne(v)

\* the updater function of update(fn), applied to the previous state
Updater(fn, prev) == PlusOne(prev)

Lit(v) == [fn |-> "lit", v |-> v]
Fn(fn) == [fn |-> fn, v |-> Undefined]

VARIABLES
    hook,          \* which hook the component calls
    factory,       \* the factory argument (computed hooks)
    initialValue,  \* the initialValue argument
    depsLen,       \* length of the dependency list the component passes
    lazyInit,      \* the initial value is given as a zero-argument initializer
    mounted,       \* the first render pass has run
    state,         \* the useState slot (memoizedState)
    queue,         \* updates dispatched and not yet reduced by a render pass
    value,         \* Reactive._value of the handle built by the latest pass
    memo,          \* the useMemo slot
    deps,          \* dependency list of the latest render pass
    phase,         \* "idle", or "rerender" after an update issued while rendering
    promises,      \* promise id -> state, value, registered reactions
    jobs,          \* promise reaction jobs queued and not yet run
    renders,       \* render passes started from idle, counted up to MaxRenders
    manual,        \* update calls made by the caller
    pendingOps,    \* caller updates since the latest render pass
    appliedOps,    \* caller updates the latest render pass reduced
    lastOp,        \* the caller's latest update and the value the cell held
    calls,         \* invocations of the factory
    depChanges,    \* render passes whose dependency list differs from the pass before
    lastArg,       \* argument of the latest factory invocation
    expectedArg,   \* the value written last before that invocation
    chain,         \* the value written last (factory commit or caller update)
    lastWriter,    \* who wrote the cell last: "init", "factory" or "caller"
    argWriter,     \* who had written the cell last when the factory was last invoked
    history,       \* successive distinct values of the state slot
    published,     \* promise id -> update calls made with its resolved value
    manualAfter,   \* caller updates made after promise 1 resolved
    resolveOrder,  \* promise ids in the order they resolved
    overlap,       \* promise 2 was created while promise 1 was pending
    handle,        \* identity of the handle object built by the latest pass
    lastCall,      \* the caller's latest method call on the handle and what it gave
    mstate,        \* the component's second useState slot: the cell map() creates, or
                   \* the cell of the useComputed the draft useAsyncComputed calls
    mqueue,        \* updates dispatched to the second cell and not yet reduced
    mvalue,        \* _value of the second cell's handle built by the latest pass
    mchain,        \* fn(initial source value) with the mapped cell's own updates applied
    kept           \* a handle of an earlier pass that a child still holds

config == <<hook, factory, initialValue, depsLen, lazyInit>>
hostVars == <<mounted, state, queue, value, memo, deps, phase>>
promiseVars == <<promises, jobs>>
callerGhost == <<manual, pendingOps, appliedOps, lastOp, manualAfter>>
computedGhost == <<calls, depChanges, lastArg, expectedArg, chain, lastWriter, argWriter>>
promiseGhost == <<published, resolveOrder, overlap>>
callGhost == <<handle, lastCall, kept>>
mapVars == <<mstate, mqueue, mvalue, mchain>>
vars == <<config, hostVars, promiseVars, renders, callerGhost, computedGhost,
          history, promiseGhost, callGhost, mapVars>>

PromiseIds == 1..MaxPromises
NoPromise == [st |-> "none", val |-> Undefined, reactions |-> 0]
PendingPromise == [st |-> "pending", val |-> Undefined, reactions |-> 0]
NoOp == [kind |-> "none", fn |-> "lit", v |-> Undefined, base |-> Undefined,
         prevKind |-> "none", prevFn |-> "lit"]
NoHandle == [on |-> 0, held |-> Undefined]
NoCall == [op |-> "none", on |-> 0, held |-> Undefined, result |-> FALSE, invoked |-> 0,
           arg |-> Undefined, ret |-> 0, written |-> FALSE]

\* ------------------------------------------------------------------ host
\* basicStateReducer: a function action is applied to the state, anything else replaces it
Reduce(s, a) == IF a.fn = "lit" THEN a.v ELSE Updater(a.fn, s)

RECURSIVE ApplyQueue(_, _)
ApplyQueue(s, q) == IF q = <<>> THEN s ELSE ApplyQueue(Reduce(s, Head(q)), Tail(q))

\* variant: the setter queues every action, identical or not
DispatchAlways(q, s, a) == Append(q, a)

\* the component has no update pending on any of its state slots
FiberIdle == queue = <<>> /\ mqueue = <<>>

\* the setter outside a render pass: with nothing pending, an action that leaves
\* the state identical is dropped and schedules no render
Dispatch(q, s, a) == IF FiberIdle /\ Reduce(s, a) = s THEN q ELSE Append(q, a)

\* variant: useState called without the argument
StateArgOmitted == [lazy |-> FALSE, v |-> Undefined]

\* useState(initialValue): the argument useReactive hands on, a value or an initializer
StateArg == [lazy |-> lazyInit, v |-> initialValue]

\* the host's first pass: an initializer is called for the initial state, a value is
\* the initial state
MountState(arg) ==
    CASE arg.lazy -> arg.v
      [] OTHER -> arg.v

\* useState: the initial state on the first pass, then the queue reduced in order
UseState == IF mounted THEN ApplyQueue(state, queue) ELSE MountState(StateArg)

\* areHookInputsEqual
DepsEqual(a, b) == Len(a) = Len(b) /\ \A i \in 1..Len(a) : a[i] = b[i]

\* useMemo recomputes on the first pass and when a dependency differs
Recompute(d) == ~memo.set \/ ~DepsEqual(d, memo.deps)

DepLists == IF depsLen = 0 THEN {<<>>} ELSE {<<k>> : k \in DepKeys}

Init ==
    /\ hook \in Hooks
    /\ factory \in (IF hook = "useComputedReactive" THEN Factories ELSE {"inc"})
    /\ initialValue \in (IF hook = "useReactive"
                         THEN InitialValues \cup SampleValues ELSE InitialValues)
    /\ lazyInit \in (IF hook = "useReactive" /\ initialValue \in InitialValues
                     THEN BOOLEAN ELSE {FALSE})
    /\ depsLen \in (IF hook \in {"useComputedReactive", "useAsyncComputed",
                                 "useAsyncComputedDraft"}
                     THEN {0, 1} ELSE {0})
    /\ mounted = FALSE
    /\ state = Undefined
    /\ queue = <<>>
    /\ value = Undefined
    /\ memo = [set |-> FALSE, deps |-> <<>>, val |-> Undefined, promise |-> 0]
    /\ deps = <<>>
    /\ phase = "idle"
    /\ promises = [p \in PromiseIds |->
                     IF hook = "useAsyncReactive" /\ p = 1 THEN PendingPromise ELSE NoPromise]
    /\ jobs = <<>>
    /\ renders = 0
    /\ manual = 0
    /\ pendingOps = 0
    /\ appliedOps = 0
    /\ lastOp = NoOp
    /\ calls = 0
    /\ depChanges = 0
    /\ lastArg = Undefined
    /\ expectedArg = Undefined
    /\ chain = initialValue
    /\ lastWriter = "init"
    /\ argWriter = "init"
    /\ history = <<>>
    /\ published = [p \in PromiseIds |-> 0]
    /\ manualAfter = 0
    /\ resolveOrder = <<>>
    /\ overlap = FALSE
    /\ handle = 0
    /\ lastCall = NoCall
    /\ kept = NoHandle
    /\ mstate = Undefined
    /\ mqueue = <<>>
    /\ mvalue = Undefined
    /\ mchain = IF hook = "useReactiveMap" THEN MappingFn(initialValue) ELSE Undefined

\* ------------------------------------------------------------------ bookkeeping
\* the observations below are kept for the hooks whose properties read them
TrackOps == hook \in {"useReactive", "useAsyncReactive", "useModel", "useReactiveShared"}
TrackComputed == hook = "useComputedReactive"
TrackChain == hook \in {"useComputedReactive", "useReactiveMap"}
TrackCalls == hook = "useReactive"
TrackKept == hook = "useReactiveShared"

\* ------------------------------------------------------------------ render passes
\* a pass runs when no reaction job is waiting; the pass forced by an update issued
\* while rendering runs the component again with the same dependency list; the
\* parent renders the component up to MaxRenders times, with any dependency list,
\* and a pending update always gets its pass, with the dependency list unchanged
PassGuard(d) ==
    /\ jobs = <<>>
    /\ d \in DepLists
    /\ CASE phase = "rerender" -> d = deps
         [] renders < MaxRenders -> TRUE
         [] OTHER -> ~FiberIdle /\ d = deps

\* new Reactive([state, dispatch]): _value is the state the pass read
HandleValue(s) == s

\* useReactive: the state slot and the handle of this pass
CellPass(d) ==
    /\ mounted' = TRUE
    /\ state' = UseState
    /\ value' = HandleValue(UseState)
    /\ deps' = d
    /\ renders' = IF phase = "idle" /\ renders < MaxRenders THEN renders + 1 ELSE renders
    /\ appliedOps' = IF phase = "idle" THEN pendingOps ELSE appliedOps
    /\ pendingOps' = 0
    /\ history' = IF TrackComputed /\ (history = <<>> \/ history[Len(history)] /= UseState)
                  THEN Append(history, UseState) ELSE history
    /\ depChanges' = IF mounted /\ phase = "idle" /\ d /= deps
                     THEN depChanges + 1 ELSE depChanges
    /\ handle' = IF TrackCalls \/ TrackKept THEN handle + 1 ELSE handle
    /\ lastCall' = NoCall
    /\ UNCHANGED <<config, manual, lastOp, manualAfter, kept>>

RenderUseReactive ==
    /\ hook \in {"useReactive", "useReactiveShared"}
    /\ PassGuard(<<>>)
    /\ CellPass(<<>>)
    /\ queue' = <<>>
    /\ phase' = "idle"
    /\ UNCHANGED <<memo, promiseVars, calls, lastArg, expectedArg, chain, lastWriter,
                   argWriter, promiseGhost, mapVars>>

\* useModel: useState(initialValue) and new Model([state, dispatch])
RenderUseModel ==
    /\ hook = "useModel"
    /\ PassGuard(<<>>)
    /\ CellPass(<<>>)
    /\ queue' = <<>>
    /\ phase' = "idle"
    /\ UNCHANGED <<memo, promiseVars, calls, lastArg, expectedArg, chain, lastWriter,
                   argWriter, promiseGhost, mapVars>>

\* variant: the mapped cell recomputed from the source on every pass
MapStateDerived(src) == MappingFn(src)

\* map: useReactive<T>(mappingFn(this._value)), a further state slot of the component
\* whose initial state is mappingFn of the source value of the first pass
MapState(src) ==
    IF mounted THEN ApplyQueue(mstate, mqueue)
    ELSE MountState([lazy |-> FALSE, v |-> MappingFn(src)])

\* a component calling useReactive(initialValue).map(fn)
RenderUseReactiveMap ==
    /\ hook = "useReactiveMap"
    /\ PassGuard(<<>>)
    /\ CellPass(<<>>)
    /\ queue' = <<>>
    /\ phase' = "idle"
    /\ mstate' = MapState(HandleValue(UseState))
    /\ mvalue' = HandleValue(MapState(HandleValue(UseState)))
    /\ mqueue' = <<>>
    /\ UNCHANGED <<memo, promiseVars, calls, lastArg, expectedArg, chain, lastWriter,
                   argWriter, promiseGhost, mchain>>

\* variant: useMemo given an empty dependency list
MemoDepsEmpty(d) == <<>>

\* variant: the cell's own value added to the dependency list
MemoDepsWithValue(d) == Append(d, UseState)

\* the dependency list useComputedReactive hands to useMemo
MemoDeps(d) == d

\* variant: the factory given the initial value instead of previous.value
FactoryArgInitial(v) == initialValue

\* factoryWithHistory reads previous.value, the handle of this pass
FactoryArg(v) == v

\* variant: the result is memoized but never written to the cell
CommitDropped(newUpdate) == <<>>

\* previous.update(newUpdate), issued while rendering: queued for the forced pass
CommitQueue(newUpdate) == <<Lit(newUpdate)>>

RenderUseComputedReactive(d) ==
    /\ hook = "useComputedReactive"
    /\ PassGuard(d)
    /\ CellPass(d)
    /\ IF Recompute(MemoDeps(d))
       THEN LET arg == FactoryArg(HandleValue(UseState))
                newUpdate == Factory(factory, arg)
            IN /\ queue' = CommitQueue(newUpdate)
               /\ phase' = IF CommitQueue(newUpdate) /= <<>> THEN "rerender" ELSE "idle"
               /\ memo' = [set |-> TRUE, deps |-> MemoDeps(d), val |-> newUpdate,
                           promise |-> 0]
               /\ calls' = calls + 1
               /\ lastArg' = arg
               /\ expectedArg' = chain
               /\ chain' = newUpdate
               /\ argWriter' = lastWriter
               /\ lastWriter' = "factory"
       ELSE /\ queue' = <<>>
            /\ phase' = "idle"
            /\ UNCHANGED <<memo, calls, lastArg, expectedArg, chain, lastWriter, argWriter>>
    /\ UNCHANGED <<promiseVars, promiseGhost, mapVars>>

\* useComputed: model = useComputedReactive(factory, deps, initialValue); it
\* returns model.value, the value of the handle of this pass
UseComputed == HandleValue(value)

\* variant: no continuation is registered
ThenNothing(ps, js, p) == [promises |-> ps, jobs |-> js]

\* variant: update registered for rejection as well, then(update, update)
ThenUpdateAlsoRejected(ps, js, p) ==
    IF ps[p].st \in {"resolved", "rejected"}
    THEN [promises |-> ps, jobs |-> Append(js, [p |-> p, v |-> ps[p].val])]
    ELSE [promises |-> [ps EXCEPT ![p].reactions = @ + 1], jobs |-> js]

\* promise.then(update): a reaction on a pending promise, a job on a resolved one;
\* update is the fulfilment handler only, a rejected promise never calls it
ThenUpdate(ps, js, p) ==
    CASE ps[p].st = "resolved" ->
           [promises |-> ps, jobs |-> Append(js, [p |-> p, v |-> ps[p].val])]
      [] ps[p].st = "rejected" -> [promises |-> ps, jobs |-> js]
      [] OTHER -> [promises |-> [ps EXCEPT ![p].reactions = @ + 1], jobs |-> js]

RenderUseAsyncReactive ==
    /\ hook = "useAsyncReactive"
    /\ PassGuard(<<>>)
    /\ CellPass(<<>>)
    /\ queue' = <<>>
    /\ phase' = "idle"
    /\ promises' = ThenUpdate(promises, jobs, 1).promises
    /\ jobs' = ThenUpdate(promises, jobs, 1).jobs
    /\ UNCHANGED <<memo, calls, lastArg, expectedArg, chain, lastWriter, argWriter,
                   promiseGhost, mapVars>>

FreshIds == {p \in PromiseIds : promises[p].st = "none"}
FreshId == CHOOSE p \in FreshIds : \A q \in FreshIds : p <= q

\* variant: the continuation registered inside the memo factory only
RegistersOnRecompute(d) == Recompute(d)

\* useMemo(asyncFactory, deps).then(previous.update) is in the hook body: every pass
RegistersThen(d) == TRUE

RenderUseAsyncComputed(d) ==
    /\ hook = "useAsyncComputed"
    /\ PassGuard(d)
    /\ Recompute(d) => FreshIds /= {}
    /\ CellPass(d)
    /\ queue' = <<>>
    /\ phase' = "idle"
    /\ LET created == IF Recompute(d)
                      THEN [promises EXCEPT ![FreshId] = PendingPromise]
                      ELSE promises
           target == IF Recompute(d) THEN FreshId ELSE memo.promise
       IN /\ memo' = IF Recompute(d)
                     THEN [set |-> TRUE, deps |-> d, val |-> Undefined, promise |-> target]
                     ELSE memo
          /\ promises' = IF RegistersThen(d)
                         THEN ThenUpdate(created, jobs, target).promises ELSE created
          /\ jobs' = IF RegistersThen(d)
                     THEN ThenUpdate(created, jobs, target).jobs ELSE jobs
          /\ calls' = IF Recompute(d) THEN calls + 1 ELSE calls
          /\ overlap' = (overlap \/ (Recompute(d) /\ target = 2 /\ promises[1].st = "pending"))
    /\ UNCHANGED <<lastArg, expectedArg, chain, lastWriter, argWriter, published,
                   resolveOrder, mapVars>>

\* the draft's asyncFactory returns previous.value, the cell's value of this pass
DraftResult(v) == v

\* the cell of the useComputed the draft calls: useReactive with no initial value
InnerState ==
    IF mounted THEN ApplyQueue(mstate, mqueue)
    ELSE MountState([lazy |-> FALSE, v |-> Undefined])

\* the draft useAsyncComputed: previous = useReactive(initialValue); asyncFactory
\* calls factory(previous.value).then(previous.update) and returns previous.value;
\* the hook returns useComputed(asyncFactory, deps), the value of a cell of its own
\* to which asyncFactory's result is committed on recomputation
RenderUseAsyncComputedDraft(d) ==
    /\ hook = "useAsyncComputedDraft"
    /\ PassGuard(d)
    /\ Recompute(d) => FreshIds /= {}
    /\ CellPass(d)
    /\ queue' = <<>>
    /\ mstate' = InnerState
    /\ mvalue' = HandleValue(InnerState)
    /\ IF Recompute(d)
       THEN LET created == [promises EXCEPT ![FreshId] = PendingPromise]
                newUpdate == DraftResult(HandleValue(UseState))
            IN /\ promises' = ThenUpdate(created, jobs, FreshId).promises
               /\ jobs' = ThenUpdate(created, jobs, FreshId).jobs
               /\ memo' = [set |-> TRUE, deps |-> d, val |-> newUpdate, promise |-> FreshId]
               /\ mqueue' = CommitQueue(newUpdate)
               /\ phase' = IF CommitQueue(newUpdate) /= <<>> THEN "rerender" ELSE "idle"
               /\ calls' = calls + 1
       ELSE /\ mqueue' = <<>>
            /\ phase' = "idle"
            /\ UNCHANGED <<memo, promises, jobs, calls>>
    /\ UNCHANGED <<lastArg, expectedArg, chain, lastWriter, argWriter, promiseGhost, mchain>>

\* ------------------------------------------------------------------ the caller
\* useAsyncComputed returns previous.value alone: its caller holds no handle
ReturnsHandle == hook \in {"useReactive", "useComputedReactive", "useAsyncReactive",
                           "useReactiveMap", "useReactiveShared"}

CallerGuard ==
    /\ ReturnsHandle
    /\ mounted
    /\ phase = "idle"
    /\ jobs = <<>>
    /\ manual < MaxUpdates

CallerGhost(kind, a) ==
    /\ manual' = manual + 1
    /\ pendingOps' = IF TrackOps THEN pendingOps + 1 ELSE pendingOps
    /\ lastOp' = IF TrackOps
                 THEN [kind |-> kind, fn |-> a.fn, v |-> a.v, base |-> value,
                       prevKind |-> IF TrackKept /\ pendingOps > 0 THEN lastOp.kind
                                    ELSE "none",
                       prevFn |-> IF TrackKept /\ pendingOps > 0 THEN lastOp.fn
                                  ELSE "lit"]
                 ELSE lastOp
    /\ manualAfter' = IF hook = "useAsyncReactive" /\ promises[1].st = "resolved"
                      THEN manualAfter + 1 ELSE manualAfter
    /\ chain' = IF TrackChain THEN Reduce(chain, a) ELSE chain
    /\ lastWriter' = IF TrackComputed THEN "caller" ELSE lastWriter
    /\ UNCHANGED <<config, mounted, state, value, memo, deps, phase, promiseVars, renders,
                   appliedOps, calls, depChanges, lastArg, expectedArg, argWriter,
                   history, promiseGhost, handle, kept, mapVars>>

\* variant: update left as the field's default no-op
UpdateIgnored(q, s, a) == q

\* update is the host's setter itself
UpdateQueue(q, s, a) == Dispatch(q, s, a)

\* update(x) and update(fn)
Update(a) ==
    /\ CallerGuard
    /\ queue' = UpdateQueue(queue, state, a)
    /\ CallerGhost("update", a)
    /\ UNCHANGED lastCall

\* variant: the setter does not call update
SetterWithoutUpdate(q, s, x) == q

\* set value(newValue) { this.update(newValue) }
SetterQueue(q, s, x) == UpdateQueue(q, s, Lit(x))

\* cell.value = x
SetValue(x) ==
    /\ CallerGuard
    /\ queue' = SetterQueue(queue, state, x)
    /\ CallerGhost("assign", Lit(x))
    /\ UNCHANGED lastCall

\* variant: the increment made a functional update
IncrementFunctional(q, s, v) == UpdateQueue(q, s, Fn("inc"))

\* cell.value++ and cell.value = cell.value + 1: the getter's result plus one is
\* handed to the setter
IncrementQueue(q, s, v) == SetterQueue(q, s, PlusOne(v))

IncrementValue ==
    /\ CallerGuard
    /\ TrackKept
    /\ queue' = IncrementQueue(queue, state, value)
    /\ CallerGhost("increment", Lit(PlusOne(value)))
    /\ UNCHANGED lastCall

\* the component hands the handle of this pass to a child, which keeps it
KeepHandle ==
    /\ TrackKept
    /\ mounted
    /\ phase = "idle"
    /\ jobs = <<>>
    /\ kept = NoHandle
    /\ kept' = [on |-> handle, held |-> value]
    /\ UNCHANGED <<config, hostVars, promiseVars, renders, callerGhost, computedGhost,
                   history, promiseGhost, handle, lastCall, mapVars>>

\* update of a handle of an earlier pass: the same setter of the same state slot
KeptUpdateQueue(q, s, a) == UpdateQueue(q, s, a)

\* the child calls update(x) or update(fn) on the handle it kept, after later passes
UpdateKept(a) ==
    /\ CallerGuard
    /\ kept /= NoHandle
    /\ kept.on < handle
    /\ queue' = KeptUpdateQueue(queue, state, a)
    /\ CallerGhost("keptUpdate", a)
    /\ UNCHANGED lastCall

\* update(x) and update(fn) on the cell map() returned
UpdateMapped(a) ==
    /\ hook = "useReactiveMap"
    /\ mounted
    /\ phase = "idle"
    /\ jobs = <<>>
    /\ manual < MaxUpdates
    /\ mqueue' = UpdateQueue(mqueue, mstate, a)
    /\ mchain' = Reduce(mchain, a)
    /\ manual' = manual + 1
    /\ UNCHANGED <<config, hostVars, promiseVars, renders, pendingOps, appliedOps, lastOp,
                   manualAfter, computedGhost, history, promiseGhost, callGhost, mstate,
                   mvalue>>

\* a caller holding a Model may call its methods between passes
ModelGuard ==
    /\ hook = "useModel"
    /\ mounted
    /\ phase = "idle"
    /\ manual < MaxUpdates

\* Model.update: this._dispatch(fun)
ModelUpdate(a) ==
    /\ ModelGuard
    /\ queue' = Dispatch(queue, state, a)
    /\ CallerGhost("update", a)
    /\ UNCHANGED lastCall

\* Model.reset: this.update(undefined as S)
ModelReset ==
    /\ ModelGuard
    /\ queue' = Dispatch(queue, state, Lit(Undefined))
    /\ CallerGhost("reset", Lit(Undefined))
    /\ UNCHANGED lastCall

\* a method call on the handle of the latest pass
CallGuard ==
    /\ TrackCalls
    /\ mounted
    /\ phase = "idle"
    /\ jobs = <<>>

\* the record of a call: the handle it was made on, the _value of that handle, what
\* the call gave, and whether an update had been issued through the handle before
Call(op, result, invoked, arg, ret) ==
    [op |-> op, on |-> handle, held |-> value, result |-> result, invoked |-> invoked,
     arg |-> arg, ret |-> ret, written |-> pendingOps > 0]

QueryFrame ==
    UNCHANGED <<config, hostVars, promiseVars, renders, callerGhost, computedGhost,
                history, promiseGhost, handle, kept, mapVars>>

\* variant: the getter reads the storage slot with the pending updates applied
ReadValueLive(v, s, q) == ApplyQueue(s, q)

\* get value(): return this._value
ReadValue(v, s, q) == v

\* reading cell.value; the value read is recorded as the call's arg
GetValue ==
    /\ CallGuard
    /\ lastCall' = Call("value", FALSE, 0, ReadValue(value, state, queue), 0)
    /\ QueryFrame

\* variant: definedness decided by truthiness
IsDefinedTruthy(v) == Truthy(v)

\* isDefined(): this._value !== undefined && this._value !== null
IsDefined(v) == v.t /= "undefined" /\ v.t /= "null"

IsDefinedCall ==
    /\ CallGuard
    /\ lastCall' = Call("isDefined", IsDefined(value), 0, Undefined, 0)
    /\ QueryFrame

\* variant: emptiness decided by definedness
IsEmptyUndefined(v) == ~IsDefined(v)

\* isEmpty(): !this._value
IsEmpty(v) == ~Truthy(v)

IsEmptyCall ==
    /\ CallGuard
    /\ lastCall' = Call("isEmpty", IsEmpty(value), 0, Undefined, 0)
    /\ QueryFrame

\* variant: the callback invoked whatever the value
IfPresentAlways(v) == TRUE

\* variant: the callback guarded by truthiness
IfPresentTruthy(v) == Truthy(v)

\* ifPresent: if (this.isDefined()) callable(this._value, this.update)
IfPresentInvokes(v) == IsDefined(v)

\* ifPresent(cb); the callback "write" calls the update it is given with 5
IfPresent(cb) ==
    /\ CallGuard
    /\ lastCall' = Call("ifPresent", FALSE, IF IfPresentInvokes(value) THEN 1 ELSE 0,
                        IF IfPresentInvokes(value) THEN value ELSE Undefined, handle)
    /\ IF IfPresentInvokes(value) /\ cb = "write"
       THEN /\ manual < MaxUpdates
            /\ queue' = UpdateQueue(queue, state, Lit(Num(5)))
            /\ CallerGhost("ifPresent", Lit(Num(5)))
       ELSE QueryFrame

\* variant: reset to the initial value
ResetToInitial(q, s) == UpdateQueue(q, s, Lit(initialValue))

\* reset(): this.update(undefined as S)
ResetQueue(q, s) == UpdateQueue(q, s, Lit(Undefined))

\* reset() returns this
Reset ==
    /\ CallerGuard
    /\ queue' = ResetQueue(queue, state)
    /\ CallerGhost("reset", Lit(Undefined))
    /\ lastCall' = IF TrackCalls THEN Call("reset", FALSE, 0, Undefined, handle)
                   ELSE lastCall

\* ------------------------------------------------------------------ promises
\* a pending promise resolves: its reactions become jobs, in registration order
Resolve(p, r) ==
    /\ promises[p].st = "pending"
    /\ phase = "idle"
    /\ jobs = <<>>
    /\ promises' = [promises EXCEPT ![p] = [st |-> "resolved", val |-> r, reactions |-> 0]]
    /\ jobs' = [i \in 1..promises[p].reactions |-> [p |-> p, v |-> r]]
    /\ resolveOrder' = Append(resolveOrder, p)
    /\ UNCHANGED <<config, hostVars, renders, callerGhost, computedGhost, history,
                   published, overlap, callGhost, mapVars>>

\* a pending promise rejects: the reactions hold no rejection handler, so no job
\* calls update; the rejection is left to the host
Reject(p) ==
    /\ promises[p].st = "pending"
    /\ phase = "idle"
    /\ jobs = <<>>
    /\ promises' = [promises EXCEPT ![p].st = "rejected", ![p].val = Err]
    /\ UNCHANGED <<config, hostVars, jobs, renders, callerGhost, computedGhost, history,
                   promiseGhost, callGhost, mapVars>>

\* the reaction registered by then(update) runs: update(resolved value)
RunJob ==
    /\ jobs /= <<>>
    /\ queue' = UpdateQueue(queue, state, Lit(Head(jobs).v))
    /\ jobs' = Tail(jobs)
    /\ published' = [published EXCEPT
                       ![Head(jobs).p] = IF @ < MaxPublished THEN @ + 1 ELSE @]
    /\ UNCHANGED <<config, mounted, state, value, memo, deps, phase, promises, renders,
                   callerGhost, computedGhost, history, resolveOrder, overlap, callGhost,
                   mapVars>>

UpdateActions == {Lit(v) : v \in UpdateValues} \cup {Fn(f) : f \in Updaters}

Next ==
    \/ RenderUseReactive
    \/ \E d \in DepLists : RenderUseComputedReactive(d)
    \/ RenderUseAsyncReactive
    \/ RenderUseReactiveMap
    \/ RenderUseModel
    \/ \E d \in DepLists : RenderUseAsyncComputed(d)
    \/ \E d \in DepLists : RenderUseAsyncComputedDraft(d)
    \/ \E a \in UpdateActions : Update(a)
    \/ \E x \in UpdateValues : SetValue(x)
    \/ IncrementValue
    \/ KeepHandle
    \/ \E a \in UpdateActions : UpdateKept(a)
    \/ \E a \in UpdateActions : UpdateMapped(a)
    \/ \E a \in UpdateActions : ModelUpdate(a)
    \/ ModelReset
    \/ Reset
    \/ GetValue
    \/ IsDefinedCall
    \/ IsEmptyCall
    \/ \E cb \in Callbacks : IfPresent(cb)
    \/ \E p \in PromiseIds, r \in ResolveValues : Resolve(p, r)
    \/ \E p \in PromiseIds : Reject(p)
    \/ RunJob

Spec == Init /\ [][Next]_vars

\* ------------------------------------------------------------------ progress
\* the promise adapters alone, with what the host guarantees: a pending update
\* gets its render pass and a queued reaction job is run; when promises settle,
\* when the parent renders and when the caller updates is left open
AsyncHooks == {"useAsyncReactive", "useAsyncComputed"}

FairInit == Init /\ hook \in AsyncHooks

FairNext ==
    \/ RenderUseAsyncReactive
    \/ \E d \in DepLists : RenderUseAsyncComputed(d)
    \/ \E a \in UpdateActions : Update(a)
    \/ \E x \in UpdateValues : SetValue(x)
    \/ Reset
    \/ \E p \in PromiseIds, r \in ResolveValues : Resolve(p, r)
    \/ \E p \in PromiseIds : Reject(p)
    \/ RunJob

\* the pass the host schedules for a pending update
ScheduledPass ==
    /\ ~FiberIdle
    /\ (RenderUseAsyncReactive \/ \E d \in DepLists : RenderUseAsyncComputed(d))

FairSpec == FairInit /\ [][FairNext]_vars /\ WF_vars(ScheduledPass) /\ WF_vars(RunJob)

\* ------------------------------------------------------------------ properties
\* every pass and every job has run and nothing is waiting for a render
Settled == mounted /\ phase = "idle" /\ queue = <<>> /\ jobs = <<>>

\* the value an update leaves: the literal, or the function of the value held
ExpectedAfter(op) == IF op.fn = "lit" THEN op.v ELSE Updater(op.fn, op.base)

\* C1: for a useReactive cell holding v1, after one update(v2) or value = v2 and
\* the following render the value is v2; after update(fn) it is fn(v1)
C1_UpdateThenRender ==
    (hook = "useReactive" /\ appliedOps = 1 /\ pendingOps = 0)
        => value = ExpectedAfter(lastOp)

C1_Witness ==
    /\ hook = "useReactive"
    /\ appliedOps = 1
    /\ pendingOps = 0
    /\ lastOp.fn = "inc"
    /\ lastOp.base = Num(5)
    /\ value = Num(6)

\* C2: the factory of a computed cell is invoked once on the first evaluation and
\* once per render whose dependency list changed, and on no other render
C2_FactoryOncePerChange ==
    hook = "useComputedReactive" =>
        calls = (IF mounted THEN 1 ELSE 0) + depChanges

C2_Witness ==
    /\ hook = "useComputedReactive"
    /\ depChanges = 2
    /\ calls = 3
    /\ manual >= 1
    /\ renders >= 4
    /\ Settled

\* C3: the factory's argument is the value written last before the invocation, by
\* the previous invocation or by a caller's update, whichever came later
C3_FactorySeesLatestWrite ==
    (hook = "useComputedReactive" /\ calls >= 1) => lastArg = expectedArg

C3_Witness ==
    /\ hook = "useComputedReactive"
    /\ calls >= 2
    /\ argWriter = "caller"
    /\ lastArg = Num(5)

C4Scenario ==
    /\ hook = "useComputedReactive"
    /\ factory = "inc"
    /\ initialValue = Num(0)
    /\ depsLen = 1
    /\ manual = 0
    /\ depChanges = 2
    /\ Settled

\* C4 as stated: with prev => (prev ?? 0) + 1, [dep] and initial value 0, after dep
\* changed twice the cell has taken the values 0, 1, 2 and holds 2
C4_Original ==
    C4Scenario => (history = <<Num(0), Num(1), Num(2)>> /\ value = Num(2))

\* C4 amended: the factory also runs on the first evaluation, so after dep changed
\* twice the cell has taken the values 0, 1, 2, 3 and holds 3
C4_FirstEvaluationCounts ==
    C4Scenario => (history = <<Num(0), Num(1), Num(2), Num(3)>> /\ value = Num(3))

C4_Witness == C4Scenario /\ calls = 3

\* C5: with the same promise on every render and no caller update, the cell holds
\* the initial value while the promise is pending and its result once the
\* resolution has been rendered
C5_InitialThenResolved ==
    (hook = "useAsyncReactive" /\ manual = 0 /\ mounted) =>
        /\ promises[1].st = "pending" => value = initialValue
        /\ (/\ promises[1].st = "resolved"
            /\ (Settled \/ (published[1] >= 1 /\ queue = <<>>)))
              => value = promises[1].val

C5_Witness ==
    /\ hook = "useAsyncReactive"
    /\ manual = 0
    /\ Settled
    /\ promises[1].st = "resolved"
    /\ published[1] >= 1
    /\ value = promises[1].val
    /\ value /= initialValue

\* C6 as stated: update is called with the promise's result exactly once, however
\* often the component renders
C6_Original == hook = "useAsyncReactive" => published[1] <= 1

\* C7 as stated: once the promise has resolved to r and the cell shows r, a
\* caller's update(v) with v other than r leaves the cell at v when renders settle
C7_Original ==
    (/\ hook = "useAsyncReactive"
     /\ promises[1].st = "resolved"
     /\ manualAfter >= 1
     /\ lastOp.fn = "lit"
     /\ lastOp.base = promises[1].val
     /\ lastOp.v /= promises[1].val
     /\ Settled) => value = lastOp.v

\* C8: a caller's update made before the promise settles is overwritten by the
\* resolution: when renders settle the cell holds the promise's result
C8_ResolutionOverwrites ==
    (/\ hook = "useAsyncReactive"
     /\ promises[1].st = "resolved"
     /\ manual >= 1
     /\ manualAfter = 0
     /\ Settled) => value = promises[1].val

C8_Witness ==
    /\ hook = "useAsyncReactive"
    /\ promises[1].st = "resolved"
    /\ manual >= 1
    /\ manualAfter = 0
    /\ Settled
    /\ lastOp.fn = "lit"
    /\ lastOp.v /= promises[1].val
    /\ published[1] >= 1

\* C9 as stated: each promise a recomputation produced has its result passed to
\* update exactly once, however many renders leave the dependencies unchanged
C9_Original ==
    hook = "useAsyncComputed" => \A p \in PromiseIds : published[p] <= 1

\* C10 as stated: the dependencies changed while the first promise was in flight,
\* both promises resolved: when everything has settled the hook holds the result
\* of the promise that settled last
C10_Original ==
    (/\ hook = "useAsyncComputed"
     /\ overlap
     /\ calls = 2
     /\ Len(resolveOrder) = 2
     /\ Settled) => value = promises[resolveOrder[2]].val

\* C11: the shipped useAsyncComputed returns the initial value until a promise has
\* resolved, and the result of the promise memoized for the current dependencies
\* once that promise has resolved and renders have settled
C11_ReturnsCurrentResult ==
    (hook = "useAsyncComputed" /\ mounted) =>
        /\ resolveOrder = <<>> => value = initialValue
        /\ (Settled /\ promises[memo.promise].st = "resolved")
               => value = promises[memo.promise].val

C11_Witness ==
    /\ hook = "useAsyncComputed"
    /\ Settled
    /\ memo.promise = 2
    /\ resolveOrder = <<2, 1>>
    /\ promises[1].val /= promises[2].val
    /\ value = promises[2].val

\* C12: a computed cell with an empty dependency list invokes its factory once, on
\* the first evaluation, whatever renders and caller updates follow
C12_EmptyDepsOnce ==
    (hook = "useComputedReactive" /\ depsLen = 0 /\ mounted) => calls = 1

C12_Witness ==
    /\ hook = "useComputedReactive"
    /\ depsLen = 0
    /\ calls = 1
    /\ renders >= 3
    /\ manual >= 1
    /\ Settled

\* C13: reset() returns the handle it was called on, and after the following render
\* the cell's value is undefined, whatever it held
C13_ResetToUndefined ==
    /\ (TrackCalls /\ lastCall.op = "reset") => lastCall.ret = lastCall.on
    /\ (hook = "useReactive" /\ lastOp.kind = "reset" /\ appliedOps >= 1 /\ pendingOps = 0)
          => value = Undefined

C13_Witness ==
    /\ hook = "useReactive"
    /\ lastOp.kind = "reset"
    /\ lastOp.base = Str(1)
    /\ initialValue = Str(1)
    /\ appliedOps >= 1
    /\ pendingOps = 0
    /\ value = Undefined

\* C14: ifPresent(fn) invokes fn once, with the value the handle holds, when that
\* value is neither null nor undefined, and not at all otherwise; it returns the
\* handle it was called on
C14_IfPresentOnceWhenDefined ==
    (TrackCalls /\ lastCall.op = "ifPresent") =>
        /\ lastCall.invoked = (IF lastCall.held \in {Undefined, Null} THEN 0 ELSE 1)
        /\ lastCall.invoked = 1 => lastCall.arg = lastCall.held
        /\ lastCall.ret = lastCall.on

C14_Witness ==
    /\ TrackCalls
    /\ lastCall.op = "ifPresent"
    /\ lastCall.held = Num(0)
    /\ lastCall.invoked = 1
    /\ lastCall.arg = Num(0)
    /\ lastOp.kind = "ifPresent"
    /\ queue = <<Lit(Num(5))>>

\* C17: isDefined() is true exactly when the value is neither null nor undefined; it
\* is true for 0, "", false and []
C17_IsDefined ==
    (TrackCalls /\ lastCall.op = "isDefined") =>
        /\ lastCall.result = (lastCall.held \notin {Undefined, Null})
        /\ lastCall.held \in {Num(0), Str(0), Bool(0), Arr(0)} => lastCall.result

C17_Witness ==
    /\ TrackCalls
    /\ lastCall.op = "isDefined"
    /\ lastCall.held = Str(0)
    /\ lastCall.result

\* C18 as stated: isEmpty() is true exactly for 0, "", false, null and undefined
C18_Original ==
    (TrackCalls /\ lastCall.op = "isEmpty") =>
        lastCall.result = (lastCall.held \in {Num(0), Str(0), Bool(0), Null, Undefined})

\* C18 amended: isEmpty() is true exactly for the falsy values, which besides 0, "",
\* false, null and undefined include NaN; it is false for [] and non-empty values
C18_IsEmptyFalsy ==
    (TrackCalls /\ lastCall.op = "isEmpty") =>
        lastCall.result = (lastCall.held \in {Num(0), Str(0), Bool(0), Null, Undefined, NaN})

C18_Witness ==
    /\ TrackCalls
    /\ lastCall.op = "isEmpty"
    /\ lastCall.held = NaN
    /\ lastCall.result
    /\ initialValue = Undefined
    /\ lastOp.fn = "inc"

\* C16: a useReactive cell created with initial value v, with an initializer producing
\* v, or with nothing (v undefined) holds v on the first render and on every later
\* render until update is first called
C16_InitialValueHeld ==
    (hook = "useReactive" /\ mounted /\ manual = 0) => value = initialValue

C16_Witness ==
    /\ hook = "useReactive"
    /\ lazyInit
    /\ initialValue = Num(0)
    /\ renders >= 3
    /\ manual = 0
    /\ value = Num(0)

\* C19: a promise that rejects never has update called for it: the cell keeps the
\* value it had and records no error
C19_RejectionNotPublished ==
    /\ \A p \in PromiseIds : promises[p].st = "rejected" => published[p] = 0
    /\ (/\ hook = "useAsyncReactive"
        /\ promises[1].st = "rejected"
        /\ mounted
        /\ manual = 0) => value = initialValue
    /\ (hook = "useAsyncComputed" /\ mounted /\ resolveOrder = <<>>) => value = initialValue
    /\ state /= Err
    /\ value /= Err

C19_Witness ==
    /\ hook = "useAsyncReactive"
    /\ promises[1].st = "rejected"
    /\ promises[1].reactions >= 1
    /\ renders >= 3
    /\ manual = 0
    /\ Settled
    /\ value = initialValue

\* C15: map(fn) gives a cell of its own, holding fn(source value of the first render):
\* updates of the source never change it and its updates never change the source
C15_MapIndependent ==
    (hook = "useReactiveMap" /\ mounted /\ FiberIdle) =>
        /\ mvalue = mchain
        /\ value = chain

C15_Witness ==
    /\ hook = "useReactiveMap"
    /\ FiberIdle
    /\ initialValue = Num(0)
    /\ value = Num(5)
    /\ mvalue = Num(2)
    /\ renders >= 3

\* C20 as stated: for a model created by useModel(v0), reset() after any updates and
\* the following render leave the model holding v0
C20_Original ==
    (hook = "useModel" /\ lastOp.kind = "reset" /\ appliedOps >= 1 /\ pendingOps = 0)
        => value = initialValue

\* C21: the stored value of a cell changes only in a pass that reduces queued
\* updates; an update is queued only by a caller's update (update, the setter,
\* reset, a callback of ifPresent), a factory's commit or a promise continuation;
\* reading value, isDefined(), isEmpty(), and ifPresent on an undefined or null cell
\* or with a callback that does not call update, leave the slot and its queue alone
C21_OnlyUpdateWrites ==
    [][/\ (mounted /\ state' /= state)
            => (queue /= <<>> /\ state' = ApplyQueue(state, queue))
       /\ (queue' /= queue /\ queue' /= <<>>)
            => (manual' = manual + 1 \/ Len(jobs') < Len(jobs) \/ calls' = calls + 1)
       /\ (lastCall' /= lastCall /\ lastCall'.op \in {"value", "isDefined", "isEmpty"})
            => UNCHANGED <<state, queue, value>>
       /\ (/\ lastCall' /= lastCall
           /\ lastCall'.op = "ifPresent"
           /\ (lastCall'.held \in {Undefined, Null} \/ manual' = manual))
            => UNCHANGED <<state, queue, value>>]_vars

C21_Witness ==
    /\ TrackCalls
    /\ initialValue = Num(0)
    /\ state = Undefined
    /\ manual >= 1
    /\ lastCall.op = "ifPresent"
    /\ lastCall.invoked = 0
    /\ queue = <<>>

\* C22 as stated: in the draft useAsyncComputed, once the promise the factory
\* produced has resolved to r and renders have settled with the dependencies
\* unchanged, the hook returns r
C22_Original ==
    (/\ hook = "useAsyncComputedDraft"
     /\ Settled
     /\ FiberIdle
     /\ promises[memo.promise].st = "resolved"
     /\ published[memo.promise] >= 1) => mvalue = promises[memo.promise].val

\* C23: in the pass that invokes the factory, the handle useComputedReactive returns
\* and the value useComputed returns are the value written last before the
\* invocation (the initial value on the first pass); the factory's result is what
\* they carry from the next pass on, until a caller writes
C23_ResultNextPass ==
    hook = "useComputedReactive" =>
        /\ phase = "rerender" => (value = expectedArg /\ UseComputed = expectedArg)
        /\ (phase = "rerender" /\ calls = 1) => UseComputed = initialValue
        /\ (mounted /\ phase = "idle" /\ lastWriter = "factory")
              => (value = memo.val /\ UseComputed = memo.val)

C23_Witness ==
    /\ hook = "useComputedReactive"
    /\ factory = "inc"
    /\ phase = "rerender"
    /\ calls >= 2
    /\ argWriter = "caller"
    /\ value = Num(5)
    /\ memo.val = Num(6)

\* C24: a handle is a snapshot of one render: after update(x), value = x or reset()
\* through a handle, value, isDefined() and isEmpty() on that handle still answer for
\* the value it held before; no step changes the value of a handle, and the handle
\* of a pass that reduced every update shows the stored value
C24_HandleSnapshot ==
    /\ []((/\ TrackCalls
            /\ lastCall.op \in {"value", "isDefined", "isEmpty"}
            /\ lastCall.written) =>
               /\ lastCall.on = handle
               /\ lastCall.held = lastOp.base
               /\ lastCall.op = "value" => lastCall.arg = lastOp.base
               /\ lastCall.op = "isDefined" => lastCall.result = IsDefinedValue(lastOp.base)
               /\ lastCall.op = "isEmpty" => lastCall.result = ~Truthy(lastOp.base))
    /\ []((TrackCalls /\ mounted /\ queue = <<>>) => value = state)
    /\ [][(TrackCalls /\ handle' = handle) => value' = value]_vars

C24_Witness ==
    /\ TrackCalls
    /\ lastCall.op = "value"
    /\ lastCall.written
    /\ lastOp.kind = "assign"
    /\ lastOp.v = Num(5)
    /\ lastCall.arg = Num(0)
    /\ queue = <<Lit(Num(5))>>

\* C25: through one handle and before a render, two update(v => v + 1) on a cell
\* holding n leave it at n + 2 and two cell.value++ leave it at n + 1; update called
\* on a handle of an earlier pass writes to the cell's storage slot as it is now
C25_UpdatesThroughOneHandle ==
    (hook = "useReactiveShared" /\ pendingOps = 0) =>
        /\ (/\ appliedOps = 2
            /\ lastOp.kind = "update" /\ lastOp.fn = "inc"
            /\ lastOp.prevKind = "update" /\ lastOp.prevFn = "inc")
              => value = PlusOne(PlusOne(lastOp.base))
        /\ (appliedOps = 2 /\ lastOp.kind = "increment" /\ lastOp.prevKind = "increment")
              => value = PlusOne(lastOp.base)
        /\ (appliedOps = 1 /\ lastOp.kind = "keptUpdate")
              => value = ExpectedAfter(lastOp)

C25_Witness ==
    /\ hook = "useReactiveShared"
    /\ pendingOps = 0
    /\ appliedOps = 2
    /\ lastOp.kind = "increment"
    /\ lastOp.prevKind = "increment"
    /\ lastOp.base = Num(0)
    /\ value = Num(1)

\* every promise created so far has resolved
AllResolved ==
    /\ mounted
    /\ \A p \in PromiseIds : promises[p].st \in {"none", "resolved"}

\* C26: once every promise useAsyncComputed created has resolved and the dependencies
\* change no more, the hook comes to return, and keeps returning, the result of the
\* promise created for the latest dependency change, in whatever order they resolved
C26_SettlesOnLatestPromise ==
    <>[]((hook = "useAsyncComputed" /\ AllResolved) => value = promises[memo.promise].val)

C26_Witness ==
    /\ hook = "useAsyncComputed"
    /\ AllResolved
    /\ Settled
    /\ memo.promise = 2
    /\ resolveOrder = <<2, 1>>
    /\ published[1] >= 1
    /\ promises[1].val /= promises[2].val
    /\ value = promises[2].val

====
